---- MODULE Spec2Model ----
(***************************************************************************)
(* Model of adb_quick_connect_wireless.py: main() discovers the local      *)
(* network, fills a queue with every host address, starts NUM_THREADS      *)
(* worker threads that ping each address and try `adb connect` on the      *)
(* reachable ones, and waits for them.  stop_event is the module-global    *)
(* threading.Event set by a worker whose connect succeeded.                *)
(***************************************************************************)
EXTENDS Integers, Sequences, FiniteSets, TLC

\* Size of the worker pool (50 in the source, scaled down for checking).
NUM_THREADS == 2

\* Largest number of host addresses network.hosts() yields in the model.
MaxHosts == 2

Workers == 1..NUM_THREADS

AllHosts == 1..MaxHosts

\* What the outside world answers for one address:
\*   "down": ping_host returns False
\*   "up"  : ping_host returns True,  attempt_adb_connect returns False
\*   "adb" : ping_host returns True,  attempt_adb_connect returns True
\*   "err" : subprocess.run inside ping_host raises an exception that
\*           ping_host does not catch (e.g. the ping binary is missing)
Outcomes == {"down", "up", "adb", "err"}

VARIABLES
    mpc,              \* position of the main thread inside main()
    network,          \* hosts of the discovered network; {} while/if None
    outcome,          \* the environment: address -> element of Outcomes
    queue_made,       \* TRUE once ip_queue = queue.Queue() has run
    ip_queue,         \* the FIFO content of ip_queue
    unfinished_tasks, \* Queue.unfinished_tasks (put +1, task_done -1)
    started,          \* number of worker threads started (len(threads))
    joined,           \* number of threads the join loop has passed
    stop_event,       \* the flag of the global threading.Event
    wpc,              \* position of each worker thread inside worker()
    cur,              \* the ip_address a worker is processing (0: none)
    exit_status,      \* << >> while the process runs, <<code>> once exited
    dequeues,         \* history: address -> number of queue.get returns
    probes,           \* history: address -> number of ping_host calls
    ping_true,        \* worker -> address its ping_host returned True for
    connects,         \* history: address -> number of connect calls
    successes,        \* history: addresses whose connect returned True
    late_connects,    \* history: worker -> connect calls begun while set
    won               \* history: worker -> connect calls that returned True

vars == << mpc, network, outcome, queue_made, ip_queue, unfinished_tasks,
           started, joined, stop_event, wpc, cur, exit_status, dequeues,
           probes, ping_true, connects, successes, late_connects, won >>

mainVars == << mpc, network, outcome, queue_made, started, joined,
               exit_status >>

hist == << dequeues, probes, ping_true, connects, successes, late_connects,
           won >>

----------------------------------------------------------------------------
(* Pure pieces of the code *)

\* `if not network: ... return` (lines 124-126): where main goes next.
AfterDiscoverAlways(found) == "create_queue"

AfterDiscover(found) == IF found THEN "create_queue" ELSE "returned"

\* queue.Queue.empty(), and the condition under which get(timeout=1)
\* raises queue.Empty (nothing is ever put after the workers start).
emptyOffByOne(q) == Len(q) <= 1

empty(q) == Len(q) = 0

\* What queue.get leaves in the queue.
getPeek(q) == q

get(q) == Tail(q)

\* `while not stop_event.is_set()` (line 101).
WhileCondIgnoreStop(ev) == TRUE

WhileCond(ev) == ~ev

\* `except queue.Empty: break` (lines 113-115).
OnEmptyContinue == "loop"

OnEmpty == "exited"

\* `if ping_host(ip_address):` (line 106) for a returned value r.
PingBranchAlways(r) == "connect_call"

PingBranch(r) == IF r THEN "connect_call" ELSE "task_done"

\* `if attempt_adb_connect(ip_address):` (line 108) for a returned value r.
ConnectBranchAlwaysSet(r) == "set"

ConnectBranch(r) == IF r THEN "set" ELSE "task_done"

\* thread.join() returns (or is skipped by is_alive()) only for a thread
\* that has finished (lines 151-153).
JoinReturnsEarly(w) == TRUE

JoinReturns(w) == wpc[w] = "exited"

\* The return values of the two external calls for address c.
ping_host(c) == outcome[c] \in {"up", "adb"}

attempt_adb_connect(c) == outcome[c] = "adb"

----------------------------------------------------------------------------
Init ==
    /\ mpc = "discover"
    /\ network = {}
    /\ outcome = << >>
    /\ queue_made = FALSE
    /\ ip_queue = << >>
    /\ unfinished_tasks = 0
    /\ started = 0
    /\ joined = 0
    /\ stop_event = FALSE
    /\ wpc = [w \in Workers |-> "unstarted"]
    /\ cur = [w \in Workers |-> 0]
    /\ exit_status = << >>
    /\ dequeues = [c \in AllHosts |-> 0]
    /\ probes = [c \in AllHosts |-> 0]
    /\ ping_true = [w \in Workers |-> 0]
    /\ connects = [c \in AllHosts |-> 0]
    /\ successes = {}
    /\ late_connects = [w \in Workers |-> 0]
    /\ won = [w \in Workers |-> 0]

----------------------------------------------------------------------------
(* The main thread *)

\* Lines 123-126: get_local_network_info() returns None or a network with
\* n >= 1 hosts; the environment's answers for those hosts are fixed here.
Discover ==
    /\ mpc = "discover"
    /\ \/ /\ network' = {}
          /\ outcome' = << >>
          /\ mpc' = AfterDiscover(FALSE)
       \/ \E n \in 1..MaxHosts :
            \E o \in [1..n -> Outcomes] :
                /\ network' = 1..n
                /\ outcome' = o
                /\ mpc' = AfterDiscover(TRUE)
    /\ UNCHANGED << queue_made, ip_queue, unfinished_tasks, started, joined,
                    stop_event, wpc, cur, exit_status, hist >>

\* Line 129: ip_queue = queue.Queue()
CreateQueue ==
    /\ mpc = "create_queue"
    /\ queue_made' = TRUE
    /\ ip_queue' = << >>
    /\ mpc' = "populate"
    /\ UNCHANGED << network, outcome, unfinished_tasks, started, joined,
                    stop_event, wpc, cur, exit_status, hist >>

\* Lines 130-131: one ip_queue.put(ip), hosts in ascending order.
Put ==
    /\ mpc = "populate"
    /\ Len(ip_queue) < Cardinality(network)
    /\ ip_queue' = Append(ip_queue, Len(ip_queue) + 1)
    /\ unfinished_tasks' = unfinished_tasks + 1
    /\ UNCHANGED << mainVars, stop_event, wpc, cur, hist >>

\* Lines 133-137: the for loop is over, threads = [].
PopulateDoneEarly ==
    /\ mpc = "populate"
    /\ mpc' = "spawn"
    /\ UNCHANGED << network, outcome, queue_made, ip_queue, unfinished_tasks,
                    started, joined, stop_event, wpc, cur, exit_status, hist >>

PopulateDone ==
    /\ mpc = "populate"
    /\ Len(ip_queue) = Cardinality(network)
    /\ mpc' = "spawn"
    /\ UNCHANGED << network, outcome, queue_made, ip_queue, unfinished_tasks,
                    started, joined, stop_event, wpc, cur, exit_status, hist >>

\* Lines 138-142: one iteration, worker_thread.start().
StartThread ==
    /\ mpc = "spawn"
    /\ started < NUM_THREADS
    /\ started' = started + 1
    /\ wpc' = [wpc EXCEPT ![started + 1] = "loop"]
    /\ UNCHANGED << mpc, network, outcome, queue_made, ip_queue,
                    unfinished_tasks, joined, stop_event, cur, exit_status,
                    hist >>

\* Line 138: range(NUM_THREADS) is exhausted.
SpawnDone ==
    /\ mpc = "spawn"
    /\ started = NUM_THREADS
    /\ mpc' = "wait"
    /\ UNCHANGED << network, outcome, queue_made, ip_queue, unfinished_tasks,
                    started, joined, stop_event, wpc, cur, exit_status, hist >>

\* Lines 145-148: one iteration of the supervising loop: leave it when the
\* event is set or the queue is empty, else time.sleep(1) and look again.
WaitLoop ==
    /\ mpc = "wait"
    /\ mpc' = IF stop_event \/ empty(ip_queue) THEN "join" ELSE "wait"
    /\ UNCHANGED << network, outcome, queue_made, ip_queue, unfinished_tasks,
                    started, joined, stop_event, wpc, cur, exit_status, hist >>

\* Lines 151-153: one iteration of the join loop.
JoinThread ==
    /\ mpc = "join"
    /\ joined < NUM_THREADS
    /\ JoinReturns(joined + 1)
    /\ joined' = joined + 1
    /\ UNCHANGED << mpc, network, outcome, queue_made, ip_queue,
                    unfinished_tasks, started, stop_event, wpc, cur,
                    exit_status, hist >>

\* Line 155: print("Network scan complete. Script exiting."), main returns.
CompleteEarly ==
    /\ mpc = "join"
    /\ joined >= NUM_THREADS - 1
    /\ mpc' = "complete"
    /\ UNCHANGED << network, outcome, queue_made, ip_queue, unfinished_tasks,
                    started, joined, stop_event, wpc, cur, exit_status, hist >>

Complete ==
    /\ mpc = "join"
    /\ joined = NUM_THREADS
    /\ mpc' = "complete"
    /\ UNCHANGED << network, outcome, queue_made, ip_queue, unfinished_tasks,
                    started, joined, stop_event, wpc, cur, exit_status, hist >>

\* Lines 157-158: main() has returned (line 126 or line 155) and the
\* interpreter exits; nothing in the script sets an exit status.
ProcessExit ==
    /\ mpc \in {"returned", "complete"}
    /\ exit_status = << >>
    /\ exit_status' = << 0 >>
    /\ UNCHANGED << mpc, network, outcome, queue_made, ip_queue,
                    unfinished_tasks, started, joined, stop_event, wpc, cur,
                    hist >>

MainStep ==
    \/ Discover
    \/ CreateQueue
    \/ Put
    \/ PopulateDone
    \/ StartThread
    \/ SpawnDone
    \/ WaitLoop
    \/ JoinThread
    \/ Complete
    \/ ProcessExit

----------------------------------------------------------------------------
(* A worker thread *)

\* Line 101: while not stop_event.is_set()
LoopCheck(w) ==
    /\ wpc[w] = "loop"
    /\ wpc' = [wpc EXCEPT ![w] = IF WhileCond(stop_event) THEN "get"
                                                          ELSE "exited"]
    /\ UNCHANGED << mainVars, ip_queue, unfinished_tasks, stop_event, cur,
                    hist >>

\* Line 103: ip_address = queue.get(timeout=1); queue.Empty (lines 113-115)
\* when there is nothing to take.
Get(w) ==
    /\ wpc[w] = "get"
    /\ IF empty(ip_queue)
       THEN /\ wpc' = [wpc EXCEPT ![w] = OnEmpty]
            /\ UNCHANGED << ip_queue, cur, dequeues >>
       ELSE /\ cur' = [cur EXCEPT ![w] = Head(ip_queue)]
            /\ ip_queue' = get(ip_queue)
            /\ dequeues' = [dequeues EXCEPT ![Head(ip_queue)] = @ + 1]
            /\ wpc' = [wpc EXCEPT ![w] = "ping_call"]
    /\ UNCHANGED << mainVars, unfinished_tasks, stop_event, probes,
                    ping_true, connects, successes, late_connects, won >>

\* Lines 104-106: the print, then ping_host(ip_address) is entered.
PingCall(w) ==
    /\ wpc[w] = "ping_call"
    /\ probes' = [probes EXCEPT ![cur[w]] = @ + 1]
    /\ wpc' = [wpc EXCEPT ![w] = "pinging"]
    /\ UNCHANGED << mainVars, ip_queue, unfinished_tasks, stop_event, cur,
                    dequeues, ping_true, connects, successes, late_connects,
                    won >>

\* Lines 55-61 and 106: ping_host returns, or raises into lines 116-117,
\* which print and go round the loop without task_done().
PingReturn(w) ==
    /\ wpc[w] = "pinging"
    /\ IF outcome[cur[w]] = "err"
       THEN /\ wpc' = [wpc EXCEPT ![w] = "loop"]
            /\ cur' = [cur EXCEPT ![w] = 0]
            /\ UNCHANGED ping_true
       ELSE /\ wpc' = [wpc EXCEPT ![w] = PingBranch(ping_host(cur[w]))]
            /\ UNCHANGED cur
            /\ ping_true' = IF ping_host(cur[w])
                            THEN [ping_true EXCEPT ![w] = cur[w]]
                            ELSE ping_true
    /\ UNCHANGED << mainVars, ip_queue, unfinished_tasks, stop_event,
                    dequeues, probes, connects, successes, late_connects,
                    won >>

\* Lines 107-108: the print, then attempt_adb_connect(ip_address) is entered.
ConnectCall(w) ==
    /\ wpc[w] = "connect_call"
    /\ connects' = [connects EXCEPT ![cur[w]] = @ + 1]
    /\ late_connects' = [late_connects EXCEPT
                            ![w] = IF stop_event THEN @ + 1 ELSE @]
    /\ wpc' = [wpc EXCEPT ![w] = "connecting"]
    /\ UNCHANGED << mainVars, ip_queue, unfinished_tasks, stop_event, cur,
                    dequeues, probes, ping_true, successes, won >>

\* Lines 70-93 and 108: attempt_adb_connect returns; on "connected to" the
\* device is connected and the success line is printed.
ConnectReturn(w) ==
    /\ wpc[w] = "connecting"
    /\ successes' = IF attempt_adb_connect(cur[w])
                    THEN successes \cup {cur[w]}
                    ELSE successes
    /\ won' = [won EXCEPT ![w] = IF attempt_adb_connect(cur[w]) THEN @ + 1
                                                                ELSE @]
    /\ wpc' = [wpc EXCEPT ![w] = ConnectBranch(attempt_adb_connect(cur[w]))]
    /\ UNCHANGED << mainVars, ip_queue, unfinished_tasks, stop_event, cur,
                    dequeues, probes, ping_true, connects, late_connects >>

\* Line 110: stop_event.set()
SetStopToggle(w) ==
    /\ wpc[w] = "set"
    /\ stop_event' = ~stop_event
    /\ wpc' = [wpc EXCEPT ![w] = "task_done"]
    /\ UNCHANGED << mainVars, ip_queue, unfinished_tasks, cur, hist >>

SetStopForgets(w) ==
    /\ wpc[w] = "set"
    /\ wpc' = [wpc EXCEPT ![w] = "task_done"]
    /\ UNCHANGED << mainVars, ip_queue, unfinished_tasks, stop_event, cur,
                    hist >>

SetStop(w) ==
    /\ wpc[w] = "set"
    /\ stop_event' = TRUE
    /\ wpc' = [wpc EXCEPT ![w] = "task_done"]
    /\ UNCHANGED << mainVars, ip_queue, unfinished_tasks, cur, hist >>

\* Line 112: queue.task_done(); its ValueError when nothing is unfinished
\* is caught by lines 116-117.  Either way the loop goes round; the locals
\* of this iteration are not read again before line 103 overwrites them.
TaskDone(w) ==
    /\ wpc[w] = "task_done"
    /\ unfinished_tasks' = IF unfinished_tasks > 0 THEN unfinished_tasks - 1
                                                   ELSE unfinished_tasks
    /\ wpc' = [wpc EXCEPT ![w] = "loop"]
    /\ cur' = [cur EXCEPT ![w] = 0]
    /\ ping_true' = [ping_true EXCEPT ![w] = 0]
    /\ UNCHANGED << mainVars, ip_queue, stop_event, dequeues, probes,
                    connects, successes, late_connects, won >>

WorkerStep(w) ==
    \/ LoopCheck(w)
    \/ Get(w)
    \/ PingCall(w)
    \/ PingReturn(w)
    \/ ConnectCall(w)
    \/ ConnectReturn(w)
    \/ SetStop(w)
    \/ TaskDone(w)

----------------------------------------------------------------------------
Next ==
    \/ MainStep
    \/ \E w \in Workers : WorkerStep(w)

Spec == Init /\ [][Next]_vars

\* The threads are scheduled fairly: a thread that can take a step
\* eventually takes one.
FairSpec ==
    /\ Spec
    /\ WF_vars(MainStep)
    /\ \A w \in Workers : WF_vars(WorkerStep(w))

\* main() is called once more in the same process after it has returned:
\* its locals, the queue and the worker threads are new, while the
\* module-global stop_event (line 17) is the same object and nothing in
\* main() or worker() ever clears it.
MainAgain ==
    /\ mpc \in {"returned", "complete"}
    /\ exit_status = << >>
    /\ mpc' = "discover"
    /\ network' = {}
    /\ outcome' = << >>
    /\ queue_made' = FALSE
    /\ ip_queue' = << >>
    /\ unfinished_tasks' = 0
    /\ started' = 0
    /\ joined' = 0
    /\ wpc' = [w \in Workers |-> "unstarted"]
    /\ cur' = [w \in Workers |-> 0]
    /\ dequeues' = [c \in AllHosts |-> 0]
    /\ probes' = [c \in AllHosts |-> 0]
    /\ ping_true' = [w \in Workers |-> 0]
    /\ connects' = [c \in AllHosts |-> 0]
    /\ successes' = {}
    /\ late_connects' = [w \in Workers |-> 0]
    /\ won' = [w \in Workers |-> 0]
    /\ UNCHANGED << stop_event, exit_status >>

NextRerun ==
    \/ Next
    \/ MainAgain

\* A process that may run main() any number of times before it exits.
SpecRerun == Init /\ [][NextRerun]_vars

----------------------------------------------------------------------------
TypeOK ==
    /\ mpc \in {"discover", "create_queue", "populate", "spawn", "wait",
                "join", "complete", "returned"}
    /\ network \subseteq AllHosts
    /\ queue_made \in BOOLEAN
    /\ stop_event \in BOOLEAN
    /\ started \in 0..NUM_THREADS
    /\ joined \in 0..NUM_THREADS
    /\ \A w \in Workers :
        /\ wpc[w] \in {"unstarted", "loop", "get", "ping_call", "pinging",
                       "connect_call", "connecting", "set", "task_done",
                       "exited"}
        /\ cur[w] \in 0..MaxHosts

----------------------------------------------------------------------------
(* Properties *)

RECURSIVE SumOver(_, _)
SumOver(f, S) ==
    IF S = {} THEN 0
    ELSE LET x == CHOOSE y \in S : TRUE
         IN  f[x] + SumOver(f, S \ {x})

\* get_local_network_info() has returned None.
DiscoveryFailed == mpc # "discover" /\ network = {}

\* main() has printed the final "Network scan complete" line.
Completed == mpc = "complete"

\* Exactly address b answers the ping, and it accepts the adb connection.
OnlyReachable(b) ==
    /\ b \in network
    /\ outcome[b] = "adb"
    /\ \A c \in network \ {b} : outcome[c] \in {"down", "err"}

AllDown == network # {} /\ \A c \in network : outcome[c] = "down"

\* C1: in a run in which stop_event is never set, no candidate is probed
\* twice, and when main reports completion every candidate has been
\* dequeued and probed exactly once.
C1_EveryCandidateProbedOnce ==
    ~stop_event =>
        /\ \A c \in network : probes[c] <= 1
        /\ Completed => \A c \in network : dequeues[c] = 1 /\ probes[c] = 1

C1_Witness ==
    /\ Completed
    /\ ~stop_event
    /\ Cardinality(network) = MaxHosts
    /\ \A c \in network : probes[c] = 1

\* C2 (as claimed): at most one candidate ever becomes a winner, so a run
\* establishes and reports at most one successful connection.
C2_AtMostOneWinner == Cardinality(successes) <= 1

\* C3 (as claimed): once stop_event is set, no worker starts a connect
\* attempt it had not already started.
C3_NoConnectStartsAfterStop ==
    [][\A w \in Workers :
          (stop_event /\ wpc[w] # "connecting") => wpc'[w] # "connecting"]_vars

C7_ConnectOnlyAfterPingTrue ==
    /\ \A w \in Workers :
          wpc[w] \in {"connecting", "set"} =>
              cur[w] # 0 /\ ping_true[w] = cur[w]
    /\ \A c \in network : connects[c] > 0 => ping_host(c)
    /\ (AllDown /\ Completed) =>
          /\ ~stop_event
          /\ empty(ip_queue)
          /\ \A c \in network : connects[c] = 0

C7_Witness ==
    /\ AllDown
    /\ Completed
    /\ Cardinality(network) = MaxHosts
    /\ \A c \in network : probes[c] = 1 /\ connects[c] = 0

\* C8: when discovery returns None, no queue is created or filled, no
\* worker is started, and nothing is pinged or connected to.
C8_AbortOnNoNetwork ==
    DiscoveryFailed =>
        /\ mpc = "returned"
        /\ ~queue_made
        /\ ip_queue = << >>
        /\ started = 0
        /\ \A w \in Workers : wpc[w] = "unstarted"
        /\ \A c \in AllHosts : probes[c] = 0 /\ connects[c] = 0

C8_Witness == DiscoveryFailed /\ mpc = "returned" /\ exit_status # << >>

\* C9 (as claimed): the exit status is 0 after a success or an exhausted
\* scan and non-zero when network discovery failed.
C9_ExitStatusTellsOutcome ==
    exit_status # << >> =>
        IF DiscoveryFailed THEN exit_status[1] # 0 ELSE exit_status[1] = 0

\* C10: in every state, cancelled or not, each candidate has been dequeued at
\* most once and no two workers hold the same candidate.
C10_DequeuedAtMostOnce ==
    /\ \A c \in AllHosts : dequeues[c] <= 1
    /\ \A v, w \in Workers :
          (v # w /\ cur[v] # 0) => cur[v] # cur[w]

C10_Witness ==
    /\ stop_event
    /\ \E v, w \in Workers : v # w /\ cur[v] # 0 /\ cur[w] # 0
    /\ \E c \in network : dequeues[c] = 1 /\ probes[c] = 0

\* C11 (as claimed): the stop signal belongs to one run, so it is unset
\* whenever a run of main() starts, and the workers of a run that follows a
\* successful one still find the loop condition true.
C11_SignalUnsetAtRunStart ==
    mpc \in {"discover", "create_queue", "populate"} => ~stop_event

\* C12 (as claimed): once stop_event is set no worker takes new work: no
\* queue.get returns an address and no ping_host call starts afterwards.
C12_NoNewWorkAfterStop ==
    [][\A w \in Workers :
          stop_event =>
              /\ ~(wpc[w] = "get" /\ wpc'[w] = "ping_call")
              /\ ~(wpc[w] = "ping_call" /\ wpc'[w] = "pinging")]_vars

\* C13: main prints the final line only after every started worker has
\* exited and been joined, so in the completed state no worker is running
\* and no ping_host or attempt_adb_connect call is in flight or can start.
C13_CompleteOnlyAfterWorkersExit ==
    Completed =>
        /\ started = NUM_THREADS
        /\ joined = NUM_THREADS
        /\ \A w \in Workers : wpc[w] = "exited" /\ cur[w] = 0

C13_Witness ==
    /\ Completed
    /\ exit_status # << >>
    /\ successes # {}
    /\ \A w \in Workers : wpc[w] = "exited"

C15_QueueFullBeforeWorkers ==
    [][/\ (started = 0 /\ started' = 1) =>
            /\ Len(ip_queue) = Cardinality(network)
            /\ \A c \in network : \E i \in 1..Len(ip_queue) : ip_queue[i] = c
       /\ started >= 1 => Len(ip_queue') <= Len(ip_queue)
       /\ \A w \in Workers :
            (wpc[w] = "get" /\ wpc'[w] = "exited") =>
                \A c \in network : dequeues[c] = 1]_vars

\* A worker has left on queue.Empty while another still holds a candidate.
C15_Witness ==
    /\ ~stop_event
    /\ ip_queue = << >>
    /\ \A c \in network : dequeues[c] = 1
    /\ \E v, w \in Workers : wpc[v] = "exited" /\ wpc[w] = "pinging"

\* C16: within a run stop_event, once set, stays set, and a
\* stop_event.set() executed while it is already set leaves it set and
\* changes nothing else that the threads share.
C16_StopMonotonicIdempotent ==
    [][/\ stop_event => stop_event'
       /\ \A w \in Workers :
            (wpc[w] = "set" /\ wpc'[w] # "set" /\ stop_event) =>
                /\ stop_event'
                /\ UNCHANGED << mainVars, ip_queue, unfinished_tasks, cur,
                                hist >>]_vars

\* Two workers have each succeeded and each executed stop_event.set().
C16_Witness ==
    /\ stop_event
    /\ Cardinality(successes) = 2
    /\ \E v, w \in Workers :
          /\ v # w
          /\ won[v] = 1 /\ wpc[v] \in {"task_done", "loop", "exited"}
          /\ won[w] = 1 /\ wpc[w] \in {"task_done", "loop", "exited"}

\* C17: a worker whose own attempt_adb_connect returned True sets the signal
\* and takes no further candidate, so a worker has at most one successful
\* connect per run and a run has at most NUM_THREADS of them.
C17_OneSuccessPerWorker ==
    /\ \A w \in Workers :
          /\ won[w] <= 1
          /\ won[w] = 1 => wpc[w] \in {"set", "task_done", "loop", "exited"}
          /\ (won[w] = 1 /\ wpc[w] # "set") => stop_event
    /\ SumOver(won, Workers) <= NUM_THREADS
    /\ Cardinality(successes) <= NUM_THREADS

C17_Witness ==
    /\ Len(ip_queue) > 0
    /\ \E w \in Workers : won[w] = 1 /\ wpc[w] = "exited"

====
